---- MODULE Spec2Model ----
(***************************************************************************)
(* CalSync: the tracking codec (models/placeholder.py), the tracker        *)
(* (sync/tracker.py), the change differ (sync/differ.py) and the           *)
(* reconciliation engine (sync/engine.py) running against a calendar       *)
(* backend (adapters/base.py, adapters/eventkit.py).                       *)
(*                                                                         *)
(* Representation of Python values:                                        *)
(*  - event ids and tracking ids are opaque strings in the code; here they *)
(*    are integers (only equality is ever used on them);                   *)
(*  - a datetime is an integer instant; isoformat() maps it to a string;   *)
(*  - a notes string is a sequence of tokens: the tracking prefix, the     *)
(*    terminator, a JSON object, a JSON value that is no object, or user   *)
(*    text; None and "" (which every reader of notes treats alike) are     *)
(*    both the empty sequence;                                             *)
(*  - Optional[CalendarEvent] is <<>> or <<e>>.                            *)
(***************************************************************************)
EXTENDS Integers, Sequences, FiniteSets, TLC

\* ------------------------------------------------------------------ bounds
\* instants are 0..MaxTime
MaxTime == 2
\* user edits of real events over one behaviour
MaxEdits == 2
\* sync() invocations over one behaviour
MaxRuns == 2
\* the same two, for one event between two calendars
MaxEditsPair == 3
MaxRunsPair == 3
\* events in a list handed to the differ
MaxLen == 2
\* pieces in a notes value handed to from_notes
MaxNotes == 3

\* ------------------------------------------------------- program constants
PARTICIPANT_STATUS_PENDING == 1
PARTICIPANT_STATUS_ACCEPTED == 2
PARTICIPANT_STATUS_DECLINED == 3
AVAILABILITY_FREE == 1
AVAILABILITY_BUSY == 0
TRACKING_PREFIX == "[CALSYNC:"
TRACKING_SUFFIX == "]"
\* "Nicht verfügbar" in the source
PLACEHOLDER_TITLE == "Nicht verfuegbar"

\* Python's None in a string-valued field
None == "None"
\* Python's None in an integer-valued field (availability, participant status)
NoneInt == 0 - 1

\* datetime.isoformat(): an injective rendering of an instant
IsoTable == << "T0", "T1", "T2", "T3", "T4", "T5" >>
isoformat(t) == IsoTable[t + 1]

\* truthiness of an Optional[str]
Truthy(s) == s # None /\ s # ""

\* --------------------------------------------------- notes: token sequences
PrefixTok == [t |-> TRACKING_PREFIX]
SuffixTok == [t |-> TRACKING_SUFFIX]
TextTok == [t |-> "text"]
JsonTok(data) == [t |-> "json", data |-> data]
JsonValueTok == [t |-> "jsonval"]
\* JSON text that stops inside a string value: what lies between the prefix
\* and the first "]" when a value holds a "]"; json.loads rejects it
JsonCutTok == [t |-> "jsoncut"]
\* the string values that hold the terminator "]"
SuffixStrings == {"cal]"}
ContainsSuffix(s) == s \in SuffixStrings

\* str.index(tok, from) over tokens: the first position >= from, 0 when absent
IndexOf(notes, tok, from) ==
    LET hits == { i \in from..Len(notes) : notes[i].t = tok }
    IN  IF hits = {} THEN 0 ELSE CHOOSE i \in hits : \A j \in hits : i <= j

\* ---------------------------------------------------------- PlaceholderInfo
NoInfo == [kind |-> "none"]
Raised == [kind |-> "raise"]

PlaceholderInfo(tid, src, scal, hash, sstart) ==
    [kind |-> "info", tracking_id |-> tid, source_event_id |-> src,
     source_calendar_id |-> scal, source_hash |-> hash, source_start |-> sstart]

\* PlaceholderInfo.get_occurrence_key
get_occurrence_key(info) ==
    IF Truthy(info.source_start)
    THEN << info.source_event_id, info.source_start >>
    ELSE << info.source_event_id >>

\* PlaceholderInfo.to_notes_marker: json.dumps writes a "]" of a string value
\* as it is, so the marker then holds two of them
to_notes_marker(info) ==
    LET data == IF Truthy(info.source_start)
                THEN [tid |-> info.tracking_id, src |-> info.source_event_id,
                      scal |-> info.source_calendar_id, hash |-> info.source_hash,
                      sstart |-> info.source_start]
                ELSE [tid |-> info.tracking_id, src |-> info.source_event_id,
                      scal |-> info.source_calendar_id, hash |-> info.source_hash]
    IN  IF ContainsSuffix(info.source_calendar_id) \/ ContainsSuffix(info.source_start)
        THEN << PrefixTok, JsonCutTok, SuffixTok, TextTok, SuffixTok >>
        ELSE << PrefixTok, JsonTok(data), SuffixTok >>

\* PlaceholderInfo.from_notes: NoInfo is the code's None, Raised an exception
\* the except clause does not catch (TypeError on a JSON value that is no object)
from_notes(notes) ==
    IF notes = <<>> \/ IndexOf(notes, TRACKING_PREFIX, 1) = 0 THEN NoInfo
    ELSE LET start == IndexOf(notes, TRACKING_PREFIX, 1) + 1
             end == IndexOf(notes, TRACKING_SUFFIX, start)
         IN  IF end = 0 THEN NoInfo
             ELSE LET payload == SubSeq(notes, start, end - 1)
                  IN  IF Len(payload) # 1 THEN NoInfo
                      ELSE IF payload[1].t = "jsonval" THEN Raised
                      ELSE IF payload[1].t # "json" THEN NoInfo
                      ELSE LET data == payload[1].data
                           IN  IF ~ ({"tid", "src", "scal", "hash"} \subseteq DOMAIN data)
                               THEN NoInfo
                               ELSE PlaceholderInfo(data.tid, data.src, data.scal, data.hash,
                                        IF "sstart" \in DOMAIN data THEN data.sstart ELSE None)

\* ------------------------------------------------------------ CalendarEvent
CalendarEvent(id, cal, title, start, end, allday, notes, avail, status) ==
    [id |-> id, calendar_id |-> cal, title |-> title, start_date |-> start,
     end_date |-> end, is_all_day |-> allday, notes |-> notes, location |-> None,
     availability |-> avail, self_participant_status |-> status]

\* ------------------------------------------------------------- EventTracker
\* EventTracker.compute_event_hash: sha256 over {start, end, all_day}, taken
\* as injective on that triple
compute_event_hash(event) ==
    << isoformat(event.start_date), isoformat(event.end_date), event.is_all_day >>

\* EventTracker.is_placeholder
is_placeholder(event) ==
    event.notes # <<>> /\ IndexOf(event.notes, TRACKING_PREFIX, 1) # 0

\* EventTracker.extract_tracking_info
extract_tracking_info(event) == from_notes(event.notes)

\* EventTracker.create_placeholder_notes: source_start is never passed on
create_placeholder_notes(tracking_id, source_event_id, source_calendar_id, source_hash) ==
    to_notes_marker(PlaceholderInfo(tracking_id, source_event_id, source_calendar_id,
                                    source_hash, None))

\* ids of recurring series: the backend gives every occurrence of a series
\* the series' id
RecurringIds == {2}
IsRecurring(id) == id \in RecurringIds

\* EventTracker.get_occurrence_key: called by the differ, absent from
\* tracker.py; the id alone, or the id and the start instant for an
\* occurrence of a recurring event
tracker_get_occurrence_key(event) ==
    IF IsRecurring(event.id)
    THEN << event.id, isoformat(event.start_date) >>
    ELSE << event.id >>

\* ------------------------------------------------------------- ChangeDiffer
\* _should_sync_event without its test for a declined invitation
should_sync_event_declined(event) ==
    /\ ~ is_placeholder(event)
    /\ event.availability # AVAILABILITY_FREE
    /\ event.self_participant_status # PARTICIPANT_STATUS_PENDING

\* _should_sync_event without its placeholder test
should_sync_event_of_any(event) ==
    IF event.availability = AVAILABILITY_FREE THEN FALSE
    ELSE IF event.self_participant_status = PARTICIPANT_STATUS_PENDING THEN FALSE
    ELSE IF event.self_participant_status = PARTICIPANT_STATUS_DECLINED THEN FALSE
    ELSE TRUE

\* ChangeDiffer._should_sync_event
should_sync_event(event) ==
    /\ ~ is_placeholder(event)
    /\ event.availability # AVAILABILITY_FREE
    /\ event.self_participant_status # PARTICIPANT_STATUS_PENDING
    /\ event.self_participant_status # PARTICIPANT_STATUS_DECLINED

SyncAction(type, source, target) ==
    [action_type |-> type, source_event |-> source, target_event |-> target]

\* a Python dict, insertion-ordered: a sequence of [key, value]; assigning to
\* a key that is present replaces its value in place
DictHas(d, k) == \E i \in 1..Len(d) : d[i].key = k
DictGet(d, k) == d[CHOOSE i \in 1..Len(d) : d[i].key = k].value
DictPut(d, k, v) ==
    IF DictHas(d, k)
    THEN [i \in 1..Len(d) |-> IF d[i].key = k THEN [key |-> k, value |-> v] ELSE d[i]]
    ELSE Append(d, [key |-> k, value |-> v])

\* compute_sync_actions, the placeholders dict after the first n target events
RECURSIVE IndexPlaceholders(_, _, _)
IndexPlaceholders(target_events, source_calendar_id, n) ==
    IF n = 0 THEN <<>>
    ELSE LET d == IndexPlaceholders(target_events, source_calendar_id, n - 1)
             event == target_events[n]
             info == extract_tracking_info(event)
         IN  IF /\ is_placeholder(event)
                /\ info.kind = "info"
                /\ info.source_calendar_id = source_calendar_id
             THEN DictPut(d, get_occurrence_key(info), event)
             ELSE d

\* compute_sync_actions, step 1: the CREATE/UPDATE actions of the first n
\* syncable source events
RECURSIVE CreateUpdateActions(_, _, _)
CreateUpdateActions(real_source_events, placeholders, n) ==
    IF n = 0 THEN <<>>
    ELSE LET rest == CreateUpdateActions(real_source_events, placeholders, n - 1)
             source == real_source_events[n]
             occurrence_key == tracker_get_occurrence_key(source)
         IN  IF DictHas(placeholders, occurrence_key)
             THEN LET placeholder == DictGet(placeholders, occurrence_key)
                      info == extract_tracking_info(placeholder)
                      current_hash == compute_event_hash(source)
                  IN  IF info.kind = "info" /\ info.source_hash # current_hash
                      THEN Append(rest, SyncAction("update", << source >>, << placeholder >>))
                      ELSE rest
             ELSE Append(rest, SyncAction("create", << source >>, <<>>))

\* compute_sync_actions, step 2: a DELETE for every indexed placeholder whose
\* key no syncable source event has, in dict order
RECURSIVE DeleteActions(_, _, _)
DeleteActions(placeholders, source_keys, n) ==
    IF n = 0 THEN <<>>
    ELSE LET rest == DeleteActions(placeholders, source_keys, n - 1)
         IN  IF placeholders[n].key \notin source_keys
             THEN Append(rest, SyncAction("delete", <<>>, << placeholders[n].value >>))
             ELSE rest

\* compute_sync_actions with its two steps swapped: the DELETE actions first
compute_sync_actions_deletes_first(source_events, target_events, source_calendar_id) ==
    LET real_source_events == SelectSeq(source_events, should_sync_event)
        placeholders == IndexPlaceholders(target_events, source_calendar_id,
                                          Len(target_events))
        source_keys == { tracker_get_occurrence_key(real_source_events[i]) :
                             i \in 1..Len(real_source_events) }
    IN  DeleteActions(placeholders, source_keys, Len(placeholders))
        \o CreateUpdateActions(real_source_events, placeholders, Len(real_source_events))

\* ChangeDiffer.compute_sync_actions
compute_sync_actions(source_events, target_events, source_calendar_id) ==
    LET real_source_events == SelectSeq(source_events, should_sync_event)
        placeholders == IndexPlaceholders(target_events, source_calendar_id,
                                          Len(target_events))
        source_keys == { tracker_get_occurrence_key(real_source_events[i]) :
                             i \in 1..Len(real_source_events) }
    IN  CreateUpdateActions(real_source_events, placeholders, Len(real_source_events))
        \o DeleteActions(placeholders, source_keys, Len(placeholders))

\* compute_sync_actions raises when decoding a target event's notes raises
DifferRaises(target_events) ==
    \E i \in 1..Len(target_events) :
        /\ is_placeholder(target_events[i])
        /\ extract_tracking_info(target_events[i]).kind = "raise"

\* --------------------------------------------------- the calendar backend
\* the order in which the backend lists events: by id, then by start
Before(x, y) ==
    \/ x.id < y.id
    \/ x.id = y.id /\ x.start_date < y.start_date

RECURSIVE SortedSeq(_)
SortedSeq(S) ==
    IF S = {} THEN <<>>
    ELSE LET m == CHOOSE x \in S : \A y \in S \ {x} : Before(x, y)
         IN  << m >> \o SortedSeq(S \ {m})

\* EventKitAdapter._event_to_model: the CalendarEvent built from a backend
\* event; availability and self_participant_status are not passed and keep
\* their default None
event_to_model(ek_event) ==
    [ek_event EXCEPT !.availability = NoneInt, !.self_participant_status = NoneInt]

RECURSIVE MapEventToModel(_)
MapEventToModel(ek_events) ==
    IF ek_events = <<>> THEN <<>>
    ELSE << event_to_model(Head(ek_events)) >> \o MapEventToModel(Tail(ek_events))

\* EventKitAdapter.get_events over the backend's events st: the events of
\* the calendar that start in [start_date, end_date), each converted
get_events(st, calendar_id, start_date, end_date) ==
    MapEventToModel(SortedSeq({ e \in st : /\ e.calendar_id = calendar_id
                                           /\ start_date <= e.start_date
                                           /\ e.start_date < end_date }))

\* eventWithIdentifier_: the events the backend finds for an id (the first
\* occurrence when a recurring series shares it)
EventWithIdentifier(st, event_id) ==
    LET hits == { e \in st : e.id = event_id }
    IN  IF hits = {} THEN {}
        ELSE { CHOOSE x \in hits : \A y \in hits \ {x} : Before(x, y) }

\* ids the user's own events carry
UserEventIds == {1, 2}
\* the id the backend gives a created event: one no event carries
NewEventId(st) ==
    CHOOSE n \in 3..(3 + Cardinality(st)) :
        /\ \A e \in st : e.id # n
        /\ \A m \in 3..(n - 1) : \E e \in st : e.id = m

\* tracking ids found in the backend's events
TrackingIdsIn(st) ==
    { extract_tracking_info(e).tracking_id :
          e \in { x \in st : extract_tracking_info(x).kind = "info" } }
\* PlaceholderInfo.generate_tracking_id: uuid4()[:8], a fresh value
generate_tracking_id(st) ==
    CHOOSE n \in 1..(1 + Cardinality(st)) :
        /\ n \notin TrackingIdsIn(st)
        /\ \A m \in 1..(n - 1) : m \in TrackingIdsIn(st)

\* EventKitAdapter.create_event (a call that succeeds): the stored event;
\* the adapter's model carries no availability or participant status
create_event(st, calendar_id, title, start_date, end_date, is_all_day, notes) ==
    st \cup { CalendarEvent(NewEventId(st), calendar_id, title, start_date, end_date,
                            is_all_day, notes, NoneInt, NoneInt) }

\* EventKitAdapter.update_event (a call that succeeds) with start_date,
\* end_date and notes given: title and all-day flag are left alone
update_event(st, event_id, start_date, end_date, notes) ==
    LET hit == EventWithIdentifier(st, event_id)
    IN  (st \ hit) \cup { [e EXCEPT !.start_date = start_date, !.end_date = end_date,
                                    !.notes = notes] : e \in hit }

\* EventKitAdapter.delete_event (a call that removes the event)
delete_event(st, event_id) == st \ EventWithIdentifier(st, event_id)

\* ---------------------------------------------------------------- the state
VARIABLES
    store,               \* the backend: the events of all calendars
    calendar_ids,        \* SyncEngine.calendar_ids
    pc,                  \* where sync() is: idle, load, diff, apply, done, failed
    start_date,          \* sync()'s window
    end_date,
    dry_run,
    events_by_calendar,  \* sync()'s snapshots, by calendar id
    load_idx,            \* position of the loading loop in calendar_ids
    pair_idx,            \* position of the direction loop in permutations(calendar_ids, 2)
    actions,             \* the actions of the direction still to apply
    emitted,             \* the actions the differ returned for the direction
    result,              \* the SyncResult of the direction
    summary,             \* SyncSummary.results
    before,              \* the backend when the invocation started
    clean,               \* no backend call of the invocation has failed so far
    calls,               \* create_event/update_event/delete_event calls of the invocation
    raised,              \* exceptions those calls raised
    prev,                \* the invocation that completed just before this one, if any
    removed,             \* the event the user deleted right after a successful sync, if any
    edits,               \* user edits so far
    runs,                \* sync() invocations so far
    source_events,       \* the differ called on its own: its arguments
    target_events,
    source_calendar_id,
    returned,            \* and what it returned, once it has
    previous_events,     \* the source events the target's placeholders were made for
    change,              \* the one change made to a source event since, if any
    record,              \* the codec used on its own: the PlaceholderInfo to encode, if any
    annotation,          \* the notes value to decode
    decoded              \* what from_notes made of it, once it was called

engine_vars == << store, calendar_ids, pc, start_date, end_date, dry_run,
                  events_by_calendar, load_idx, pair_idx, actions, emitted, result, summary,
                  before, clean, calls, raised, prev, removed, edits, runs >>
differ_vars == << source_events, target_events, source_calendar_id, returned,
                  previous_events, change >>
codec_vars == << record, annotation, decoded >>
vars == << engine_vars, differ_vars, codec_vars >>

Cals == {"A", "B", "C"}
\* the calendar id lists an engine is constructed with
CalendarIdLists == { << "A", "B" >>, << "A", "B", "C" >>, << "A", "A" >> }
\* the time spans of events
Spans == { sp \in (0..MaxTime) \X (0..MaxTime) : sp[1] < sp[2] /\ sp[1] <= 1 }
\* the windows sync() is called with
Windows == { << 0, 1 >>, << 0, MaxTime >> }

\* itertools.permutations(calendar_ids, 2): positions (i, j), i # j, in
\* lexicographic order
NumPairs(ids) == Len(ids) * (Len(ids) - 1)
Permutation(ids, k) ==
    LET i == ((k - 1) \div (Len(ids) - 1)) + 1
        r == ((k - 1) % (Len(ids) - 1)) + 1
        j == IF r < i THEN r ELSE r + 1
    IN  << ids[i], ids[j] >>
source_id == Permutation(calendar_ids, pair_idx)[1]
target_id == Permutation(calendar_ids, pair_idx)[2]

\* SyncResult and SyncResult.total_actions
SyncResult(src, tgt, created, updated, deleted, errors) ==
    [source_id |-> src, target_id |-> tgt, created |-> created, updated |-> updated,
     deleted |-> deleted, errors |-> errors]
total_actions(r) == r.created + r.updated + r.deleted

NoRun == [kind |-> "none"]
NoCall == [kind |-> "none"]
NoChange == [kind |-> "none", index |-> 0]
Between == pc \in {"idle", "done", "failed"}

EngineInit ==
    /\ store = {}
    /\ pc = "idle"
    /\ start_date = 0
    /\ end_date = 0
    /\ dry_run = FALSE
    /\ events_by_calendar = [c \in Cals |-> <<>>]
    /\ load_idx = 1
    /\ pair_idx = 1
    /\ actions = <<>>
    /\ emitted = <<>>
    /\ result = SyncResult("", "", 0, 0, 0, <<>>)
    /\ summary = <<>>
    /\ before = {}
    /\ clean = TRUE
    /\ calls = 0
    /\ raised = 0
    /\ prev = NoRun
    /\ removed = NoRun
    /\ edits = 0
    /\ runs = 0

\* from_notes has not been called
NotDecoded == [kind |-> "idle"]
CodecIdle ==
    /\ record = NoInfo
    /\ annotation = <<>>
    /\ decoded = NotDecoded

DifferIdle ==
    /\ source_events = <<>>
    /\ target_events = <<>>
    /\ source_calendar_id = "A"
    /\ returned = NoCall
    /\ previous_events = <<>>
    /\ change = NoChange

Init == EngineInit /\ DifferIdle /\ CodecIdle /\ calendar_ids \in CalendarIdLists

\* ------------------------------------------------------------ SyncEngine.sync
\* sync(start_date, end_date, dry_run) is called
SyncStart(s, e, dry) ==
    /\ Between
    /\ runs' = runs + 1
    /\ prev' = IF pc = "done"
               THEN [kind |-> "run", dry_run |-> dry_run, clean |-> clean,
                     start_date |-> start_date, end_date |-> end_date, summary |-> summary]
               ELSE NoRun
    /\ removed' = IF pc = "idle" THEN removed ELSE NoRun
    /\ start_date' = s
    /\ end_date' = e
    /\ dry_run' = dry
    /\ events_by_calendar' = [c \in Cals |-> <<>>]
    /\ load_idx' = 1
    /\ pair_idx' = 1
    /\ actions' = <<>>
    /\ emitted' = <<>>
    /\ result' = SyncResult("", "", 0, 0, 0, <<>>)
    /\ summary' = <<>>
    /\ before' = store
    /\ clean' = TRUE
    /\ calls' = 0
    /\ raised' = 0
    /\ pc' = "load"
    /\ UNCHANGED << store, calendar_ids, edits, differ_vars, codec_vars >>

\* one round of the loading loop: get_events returns
LoadCalendar ==
    /\ pc = "load"
    /\ events_by_calendar' =
           [events_by_calendar EXCEPT ![calendar_ids[load_idx]] =
                get_events(store, calendar_ids[load_idx], start_date, end_date)]
    /\ load_idx' = load_idx + 1
    /\ pc' = IF load_idx = Len(calendar_ids) THEN "diff" ELSE "load"
    /\ UNCHANGED << store, calendar_ids, start_date, end_date, dry_run, pair_idx, actions,
                    emitted, result, summary, before, clean, calls, raised, prev, removed,
                    edits, runs, differ_vars, codec_vars >>

\* get_events raises in the loading loop and the loop goes on with an empty
\* snapshot for the calendar
LoadFailsSkipped ==
    /\ pc = "load"
    /\ events_by_calendar' = [events_by_calendar EXCEPT ![calendar_ids[load_idx]] = <<>>]
    /\ load_idx' = load_idx + 1
    /\ pc' = IF load_idx = Len(calendar_ids) THEN "diff" ELSE "load"
    /\ clean' = FALSE
    /\ UNCHANGED << store, calendar_ids, start_date, end_date, dry_run, pair_idx, actions,
                    emitted, result, summary, before, calls, raised, prev, removed,
                    edits, runs, differ_vars, codec_vars >>

\* get_events raises in the loading loop: sync() raises
LoadFails ==
    /\ pc = "load"
    /\ pc' = "failed"
    /\ clean' = FALSE
    /\ UNCHANGED << store, calendar_ids, start_date, end_date, dry_run, events_by_calendar,
                    load_idx, pair_idx, actions, emitted, result, summary, before, calls,
                    raised, prev, removed, edits, runs, differ_vars, codec_vars >>

\* _sync_direction up to its loop: the differ runs on the two snapshots
BeginDirection ==
    /\ pc = "diff"
    /\ IF DifferRaises(events_by_calendar[target_id])
       THEN /\ pc' = "failed"
            /\ UNCHANGED << actions, emitted, result >>
       ELSE /\ actions' = compute_sync_actions(events_by_calendar[source_id],
                                               events_by_calendar[target_id], source_id)
            /\ emitted' = actions'
            /\ result' = SyncResult("", "", 0, 0, 0, <<>>)
            /\ pc' = "apply"
    /\ UNCHANGED << store, calendar_ids, start_date, end_date, dry_run, events_by_calendar,
                    load_idx, pair_idx, summary, before, clean, calls, raised, prev, removed,
                    edits, runs, differ_vars, codec_vars >>

\* _create_placeholder handing the source event's title and notes on
create_placeholder_copying(st, source_event, source_cal_id, target_cal_id) ==
    LET tracking_id == generate_tracking_id(st)
        source_hash == compute_event_hash(source_event)
        notes == create_placeholder_notes(tracking_id, source_event.id, source_cal_id,
                                          source_hash)
    IN  create_event(st, target_cal_id, source_event.title, source_event.start_date,
                     source_event.end_date, source_event.is_all_day,
                     notes \o source_event.notes)

\* SyncEngine._create_placeholder with a create_event that succeeds
create_placeholder(st, source_event, source_cal_id, target_cal_id) ==
    LET tracking_id == generate_tracking_id(st)
        source_hash == compute_event_hash(source_event)
        notes == create_placeholder_notes(tracking_id, source_event.id, source_cal_id,
                                          source_hash)
    IN  create_event(st, target_cal_id, PLACEHOLDER_TITLE, source_event.start_date,
                     source_event.end_date, source_event.is_all_day, notes)

\* _update_placeholder writing a newly generated tracking id
update_placeholder_fresh_id(st, source_event, placeholder_event, source_cal_id) ==
    LET source_hash == compute_event_hash(source_event)
        notes == create_placeholder_notes(generate_tracking_id(st), source_event.id,
                                          source_cal_id, source_hash)
    IN  update_event(st, placeholder_event.id, source_event.start_date,
                     source_event.end_date, notes)

\* SyncEngine._update_placeholder with an update_event that succeeds
update_placeholder(st, source_event, placeholder_event, source_cal_id) ==
    LET info == extract_tracking_info(placeholder_event)
        source_hash == compute_event_hash(source_event)
        notes == create_placeholder_notes(info.tracking_id, source_event.id, source_cal_id,
                                          source_hash)
    IN  update_event(st, placeholder_event.id, source_event.start_date,
                     source_event.end_date, notes)

\* the backend after the action is applied without an exception
Applied(st, action, source_cal_id, target_cal_id) ==
    IF action.action_type = "create"
    THEN create_placeholder(st, action.source_event[1], source_cal_id, target_cal_id)
    ELSE IF action.action_type = "update"
    THEN update_placeholder(st, action.source_event[1], action.target_event[1], source_cal_id)
    ELSE delete_event(st, action.target_event[1].id)

\* the SyncResult with the action counted
Counted(r, action) ==
    IF action.action_type = "create" THEN [r EXCEPT !.created = r.created + 1]
    ELSE IF action.action_type = "update" THEN [r EXCEPT !.updated = r.updated + 1]
    ELSE [r EXCEPT !.deleted = r.deleted + 1]

\* update_event raises ValueError when the backend has no event of that id
MustRaise(st, action) ==
    /\ action.action_type = "update"
    /\ EventWithIdentifier(st, action.target_event[1].id) = {}

\* a round that applies the action whatever dry_run says
ApplyActionAlways ==
    /\ pc = "apply"
    /\ actions # <<>>
    /\ ~ MustRaise(store, Head(actions))
    /\ store' = Applied(store, Head(actions), source_id, target_id)
    /\ calls' = calls + 1
    /\ result' = Counted(result, Head(actions))
    /\ actions' = Tail(actions)
    /\ UNCHANGED << calendar_ids, pc, start_date, end_date, dry_run, events_by_calendar,
                    load_idx, pair_idx, emitted, summary, before, clean, raised, prev,
                    removed, edits, runs, differ_vars, codec_vars >>

\* one round of _sync_direction's loop in which no exception is raised
ApplyAction ==
    /\ pc = "apply"
    /\ actions # <<>>
    /\ dry_run \/ ~ MustRaise(store, Head(actions))
    /\ store' = IF dry_run THEN store
                ELSE Applied(store, Head(actions), source_id, target_id)
    /\ calls' = IF dry_run THEN calls ELSE calls + 1
    /\ result' = Counted(result, Head(actions))
    /\ actions' = Tail(actions)
    /\ UNCHANGED << calendar_ids, pc, start_date, end_date, dry_run, events_by_calendar,
                    load_idx, pair_idx, emitted, summary, before, clean, raised, prev,
                    removed, edits, runs, differ_vars, codec_vars >>

\* a round in which the backend call raises and the exception leaves the
\* loop: the direction's remaining actions are dropped
ApplyFailsLeavesLoop ==
    /\ pc = "apply"
    /\ actions # <<>>
    /\ ~ dry_run
    /\ calls' = calls + 1
    /\ raised' = raised + 1
    /\ result' = [result EXCEPT !.errors = Append(result.errors, Head(actions).action_type)]
    /\ actions' = <<>>
    /\ clean' = FALSE
    /\ UNCHANGED << store, calendar_ids, pc, start_date, end_date, dry_run,
                    events_by_calendar, load_idx, pair_idx, emitted, summary, before, prev,
                    removed, edits, runs, differ_vars, codec_vars >>

\* one round in which the backend call raises: the except branch
ApplyFails ==
    /\ pc = "apply"
    /\ actions # <<>>
    /\ ~ dry_run
    /\ calls' = calls + 1
    /\ raised' = raised + 1
    /\ result' = [result EXCEPT !.errors = Append(result.errors, Head(actions).action_type)]
    /\ actions' = Tail(actions)
    /\ clean' = FALSE
    /\ UNCHANGED << store, calendar_ids, pc, start_date, end_date, dry_run,
                    events_by_calendar, load_idx, pair_idx, emitted, summary, before, prev,
                    removed, edits, runs, differ_vars, codec_vars >>

\* one round in which delete_event returns False with the event still there:
\* nothing is raised and the action is counted
DeleteRefused ==
    /\ pc = "apply"
    /\ actions # <<>>
    /\ ~ dry_run
    /\ Head(actions).action_type = "delete"
    /\ calls' = calls + 1
    /\ result' = Counted(result, Head(actions))
    /\ actions' = Tail(actions)
    /\ clean' = FALSE
    /\ UNCHANGED << store, calendar_ids, pc, start_date, end_date, dry_run,
                    events_by_calendar, load_idx, pair_idx, emitted, summary, before, raised,
                    prev, removed, edits, runs, differ_vars, codec_vars >>

\* the SyncResult sync() appends for the direction
Finished == [result EXCEPT !.source_id = source_id, !.target_id = target_id]
NeedsRefresh == ~ dry_run /\ total_actions(result) > 0

\* the direction ends and its result is appended only if it counts an action
\* or holds an error
EndDirectionOmitsEmpty ==
    /\ pc = "apply"
    /\ actions = <<>>
    /\ summary' = IF total_actions(result) + Len(result.errors) > 0
                  THEN Append(summary, Finished) ELSE summary
    /\ events_by_calendar' =
           IF NeedsRefresh
           THEN [events_by_calendar EXCEPT ![target_id] =
                     get_events(store, target_id, start_date, end_date)]
           ELSE events_by_calendar
    /\ pair_idx' = pair_idx + 1
    /\ pc' = IF pair_idx = NumPairs(calendar_ids) THEN "done" ELSE "diff"
    /\ UNCHANGED << store, calendar_ids, start_date, end_date, dry_run, load_idx, actions,
                    emitted, result, before, clean, calls, raised, prev, removed, edits,
                    runs, differ_vars, codec_vars >>

\* the direction ends and the target snapshot is kept as it was
EndDirectionStale ==
    /\ pc = "apply"
    /\ actions = <<>>
    /\ summary' = Append(summary, Finished)
    /\ pair_idx' = pair_idx + 1
    /\ pc' = IF pair_idx = NumPairs(calendar_ids) THEN "done" ELSE "diff"
    /\ UNCHANGED << store, calendar_ids, start_date, end_date, dry_run, load_idx, actions,
                    emitted, result, before, clean, calls, raised, prev, removed, edits,
                    runs, events_by_calendar, differ_vars, codec_vars >>

\* the direction's loop is over: its result is appended, the target snapshot
\* is fetched again if changes were made, and the direction loop goes on
EndDirection ==
    /\ pc = "apply"
    /\ actions = <<>>
    /\ summary' = Append(summary, Finished)
    /\ events_by_calendar' =
           IF NeedsRefresh
           THEN [events_by_calendar EXCEPT ![target_id] =
                     get_events(store, target_id, start_date, end_date)]
           ELSE events_by_calendar
    /\ pair_idx' = pair_idx + 1
    /\ pc' = IF pair_idx = NumPairs(calendar_ids) THEN "done" ELSE "diff"
    /\ UNCHANGED << store, calendar_ids, start_date, end_date, dry_run, load_idx, actions,
                    emitted, result, before, clean, calls, raised, prev, removed, edits,
                    runs, differ_vars, codec_vars >>

\* the refreshing get_events raises: sync() raises
RefreshFails ==
    /\ pc = "apply"
    /\ actions = <<>>
    /\ NeedsRefresh
    /\ summary' = Append(summary, Finished)
    /\ pc' = "failed"
    /\ clean' = FALSE
    /\ UNCHANGED << store, calendar_ids, start_date, end_date, dry_run, events_by_calendar,
                    load_idx, pair_idx, actions, emitted, result, before, calls, raised,
                    prev, removed, edits, runs, differ_vars, codec_vars >>

\* ------------------------------------------------- the owner of a calendar
RealEvents == { e \in store : e.id \in UserEventIds }
UserNotes == { <<>>, << TextTok >>, << PrefixTok, TextTok >> }

\* the placeholders of the backend that stand for event e: their record names
\* e's calendar and e's occurrence key
PlaceholdersOf(st, e) ==
    { p \in st : /\ extract_tracking_info(p).kind = "info"
                 /\ extract_tracking_info(p).source_calendar_id = e.calendar_id
                 /\ get_occurrence_key(extract_tracking_info(p)) =
                        tracker_get_occurrence_key(e) }

Edited(st) ==
    /\ Between
    /\ edits' = edits + 1
    /\ store' = st
    /\ pc' = "idle"
    /\ UNCHANGED << calendar_ids, start_date, end_date, dry_run, events_by_calendar,
                    load_idx, pair_idx, actions, emitted, result, summary, before, clean,
                    calls, raised, prev, runs, differ_vars, codec_vars >>

\* a new event; the occurrences of a recurring series share id and calendar
UserCreate(cal, id, sp) ==
    /\ \A e \in store : e.id = id =>
           IsRecurring(id) /\ e.calendar_id = cal /\ e.start_date # sp[1]
    /\ Edited(store \cup { CalendarEvent(id, cal, "Meeting", sp[1], sp[2], FALSE, <<>>,
                                         AVAILABILITY_BUSY, PARTICIPANT_STATUS_ACCEPTED) })
    /\ removed' = NoRun

UserChange(e, f) ==
    /\ e \in RealEvents
    /\ f # e
    /\ \A x \in store \ {e} : x.id = f.id => x.start_date # f.start_date
    /\ Edited((store \ {e}) \cup {f})
    /\ removed' = NoRun

UserMove(e, sp) == UserChange(e, [e EXCEPT !.start_date = sp[1], !.end_date = sp[2]])
UserSetAllDay(e) == UserChange(e, [e EXCEPT !.is_all_day = ~ e.is_all_day])
UserSetAvailability(e, a) == UserChange(e, [e EXCEPT !.availability = a])
UserSetStatus(e, s) == UserChange(e, [e EXCEPT !.self_participant_status = s])
UserSetNotes(e, n) == UserChange(e, [e EXCEPT !.notes = n])

UserDelete(e) ==
    /\ e \in RealEvents
    /\ Edited(store \ {e})
    /\ removed' = IF pc = "done" /\ ~ dry_run /\ clean
                  THEN [kind |-> "event", event |-> e,
                        holders |-> { p.calendar_id : p \in PlaceholdersOf(store, e) }]
                  ELSE NoRun

CanEdit == edits < MaxEdits
CanRun == runs < MaxRuns

Next ==
    \/ \E cal \in Cals, id \in UserEventIds, sp \in Spans : CanEdit /\ UserCreate(cal, id, sp)
    \/ \E e \in store, sp \in Spans : CanEdit /\ UserMove(e, sp)
    \/ \E e \in store : CanEdit /\ UserSetAllDay(e)
    \/ \E e \in store : CanEdit /\ UserSetAvailability(e, AVAILABILITY_FREE)
    \/ \E e \in store, s \in {PARTICIPANT_STATUS_PENDING, PARTICIPANT_STATUS_DECLINED} :
           CanEdit /\ UserSetStatus(e, s)
    \/ \E e \in store, n \in UserNotes : CanEdit /\ UserSetNotes(e, n)
    \/ \E e \in store : CanEdit /\ UserDelete(e)
    \/ \E w \in Windows, dry \in BOOLEAN : CanRun /\ SyncStart(w[1], w[2], dry)
    \/ LoadCalendar
    \/ BeginDirection
    \/ ApplyAction
    \/ ApplyFails
    \/ DeleteRefused
    \/ EndDirection

\* calendars with events of any kind, engines over any id list, every kind
\* of action failure
Spec == Init /\ [][Next]_vars

\* one event of calendar A moved and deleted between live sync() runs over
\* <<A, B>> in which every backend call succeeds
CanEditPair == edits < MaxEditsPair
CanRunPair == runs < MaxRunsPair
PairInit == EngineInit /\ DifferIdle /\ CodecIdle /\ calendar_ids = << "A", "B" >>
PairNext ==
    \/ \E sp \in Spans : CanEditPair /\ UserCreate("A", 1, sp)
    \/ \E e \in store, sp \in Spans : CanEditPair /\ UserMove(e, sp)
    \/ \E e \in store : CanEditPair /\ UserDelete(e)
    \/ \E w \in Windows : CanRunPair /\ SyncStart(w[1], w[2], FALSE)
    \/ LoadCalendar
    \/ BeginDirection
    \/ ApplyAction
    \/ EndDirection
SpecPair == PairInit /\ [][PairNext]_vars

\* the same runs, in which any get_events call may fail
FetchNext ==
    \/ PairNext
    \/ LoadFails
    \/ RefreshFails
SpecFetch == PairInit /\ [][FetchNext]_vars

\* --------------------------------------- ChangeDiffer called on its own
\* the events handed to the differ: busy or free, with a pending, a declined
\* or no invitation status
DifferEvents ==
    { CalendarEvent(id, "A", "Meeting", sp[1], sp[2], FALSE, <<>>, a, st) :
          id \in 1..MaxLen, sp \in Spans,
          a \in {AVAILABILITY_BUSY, AVAILABILITY_FREE},
          st \in {NoneInt, PARTICIPANT_STATUS_PENDING, PARTICIPANT_STATUS_DECLINED} }
\* source snapshots of up to MaxLen events, the i-th with id i
EventLists ==
    UNION { { l \in [1..n -> DifferEvents] : \A k \in 1..n : l[k].id = k } : n \in 0..MaxLen }

\* the backend after _sync_direction's loop has applied the actions, no call failing
RECURSIVE AppliedAll(_, _, _, _)
AppliedAll(st, acts, source_cal_id, target_cal_id) ==
    IF acts = <<>> THEN st
    ELSE AppliedAll(Applied(st, Head(acts), source_cal_id, target_cal_id), Tail(acts),
                    source_cal_id, target_cal_id)

\* the target snapshot after direction (A, B) of a live sync() on an empty B;
\* the differ is first called on the events that were there at that sync and
\* those added since
SyncedTarget(events) ==
    get_events(AppliedAll({}, compute_sync_actions(events, <<>>, "A"), "A", "B"),
               "B", 0, MaxTime)

DifferInit ==
    /\ EngineInit
    /\ calendar_ids = << "A", "B" >>
    /\ source_events \in EventLists
    /\ \E n \in 0..Len(source_events) : previous_events = SubSeq(source_events, 1, n)
    /\ target_events = SyncedTarget(previous_events)
    /\ source_calendar_id = "A"
    /\ returned = NoCall
    /\ change = NoChange
    /\ CodecIdle

\* one field of one source event is changed before the differ is called
DifferChange(k, field, value) ==
    /\ returned.kind = "none"
    /\ change.kind = "none"
    /\ k \in 1..Len(source_events)
    /\ source_events[k][field] # value
    /\ source_events' = [source_events EXCEPT ![k][field] = value]
    /\ change' = [kind |-> field, index |-> k]
    /\ UNCHANGED << engine_vars, target_events, source_calendar_id, returned, previous_events,
                    codec_vars >>

\* compute_sync_actions is called and returns, or raises
DifferCall ==
    /\ returned.kind = "none"
    /\ returned' = IF DifferRaises(target_events) THEN [kind |-> "raise"]
                   ELSE [kind |-> "actions",
                         actions |-> compute_sync_actions(source_events, target_events,
                                                          source_calendar_id)]
    /\ UNCHANGED << engine_vars, source_events, target_events, source_calendar_id,
                    previous_events, change, codec_vars >>

DifferNext ==
    \/ \E k \in 1..MaxLen : DifferChange(k, "title", "Renamed")
    \/ \E k \in 1..MaxLen, n \in UserNotes : DifferChange(k, "notes", n)
    \/ \E k \in 1..MaxLen, t \in 0..MaxTime :
           /\ k <= Len(source_events)
           /\ t < source_events[k].end_date
           /\ DifferChange(k, "start_date", t)
    \/ \E k \in 1..MaxLen, t \in 0..MaxTime :
           /\ k <= Len(source_events)
           /\ source_events[k].start_date < t
           /\ DifferChange(k, "end_date", t)
    \/ \E k \in 1..MaxLen : DifferChange(k, "is_all_day", TRUE)
    \/ \E k \in 1..MaxLen, a \in {AVAILABILITY_BUSY, AVAILABILITY_FREE} :
           DifferChange(k, "availability", a)
    \/ \E k \in 1..MaxLen,
          st \in {NoneInt, PARTICIPANT_STATUS_PENDING, PARTICIPANT_STATUS_DECLINED} :
           DifferChange(k, "self_participant_status", st)
    \/ DifferCall

SpecDiffer == DifferInit /\ [][DifferNext]_vars

\* the differ called on any lists: the source events may share ids
AnyEventLists == UNION { [1..n -> DifferEvents] : n \in 0..MaxLen }

AnyListsInit ==
    /\ EngineInit
    /\ calendar_ids = << "A", "B" >>
    /\ source_events \in AnyEventLists
    /\ \E n \in 0..Len(source_events) : previous_events = SubSeq(source_events, 1, n)
    /\ target_events = SyncedTarget(previous_events)
    /\ source_calendar_id = "A"
    /\ returned = NoCall
    /\ change = NoChange
    /\ CodecIdle

SpecAnyLists == AnyListsInit /\ [][DifferNext]_vars

\* ------------------------------------- PlaceholderInfo's codec on its own
\* the pieces a notes value is made of: the delimiters, other text, a JSON
\* value that is no object, cut JSON text, a JSON object with the record's
\* keys and one that lacks some
NotesTokens ==
    { PrefixTok, SuffixTok, TextTok, JsonValueTok, JsonCutTok,
      JsonTok([tid |-> 1, src |-> 1, scal |-> "A", hash |-> << "T0", "T1", FALSE >>]),
      JsonTok([tid |-> 1, src |-> 1]) }
\* the notes values handed to from_notes; None and "" are both <<>>
AnnotationValues == UNION { [1..n -> NotesTokens] : n \in 0..MaxNotes }
\* the tracking records handed to to_notes_marker
Records ==
    { PlaceholderInfo(tid, src, scal, hash, sstart) :
          tid \in 1..2, src \in 1..MaxLen, scal \in {"A"} \cup SuffixStrings,
          hash \in { << "T0", "T1", FALSE >>, << "T0", "T2", TRUE >> },
          sstart \in {None, "", isoformat(0)} }
\* an event of the target calendar with these notes
Annotated(notes) ==
    CalendarEvent(3, "B", PLACEHOLDER_TITLE, 0, 1, FALSE, notes, NoneInt, NoneInt)

\* either a record still to encode, or a notes value of any shape on an
\* event of the target calendar
CodecInit ==
    /\ EngineInit
    /\ calendar_ids = << "A", "B" >>
    /\ source_events = <<>>
    /\ previous_events = <<>>
    /\ source_calendar_id = "A"
    /\ returned = NoCall
    /\ change = NoChange
    /\ decoded = NotDecoded
    /\ \/ record \in Records /\ annotation = <<>> /\ target_events = <<>>
       \/ /\ record = NoInfo
          /\ annotation \in AnnotationValues
          /\ target_events = << Annotated(annotation) >>

\* to_notes_marker is called on the record; the marker becomes the notes of
\* a target event
Encode ==
    /\ record.kind = "info"
    /\ annotation = <<>>
    /\ annotation' = to_notes_marker(record)
    /\ target_events' = << Annotated(annotation') >>
    /\ UNCHANGED << engine_vars, source_events, source_calendar_id, returned,
                    previous_events, change, record, decoded >>

\* from_notes is called on the notes value
Decode ==
    /\ decoded.kind = "idle"
    /\ record.kind = "info" => annotation # <<>>
    /\ decoded' = from_notes(annotation)
    /\ UNCHANGED << engine_vars, differ_vars, record, annotation >>

CodecNext == Encode \/ Decode \/ DifferCall
SpecCodec == CodecInit /\ [][CodecNext]_vars

\* ------------------------------------------------------ the claims' vocabulary
\* the elements of a list
Range(seq) == { seq[i] : i \in 1..Len(seq) }
\* the event carries a tracking record: a placeholder
IsTracked(e) == extract_tracking_info(e).kind = "info"
InfoOf(e) == extract_tracking_info(e)
\* the event lies in the window of the invocation
InWindow(e) == start_date <= e.start_date /\ e.start_date < end_date
\* the event qualifies as a sync source
QualifiesAsSource(e) ==
    /\ ~ IsTracked(e)
    /\ e.availability # AVAILABILITY_FREE
    /\ e.self_participant_status \notin
           {PARTICIPANT_STATUS_PENDING, PARTICIPANT_STATUS_DECLINED}
\* the placeholders in calendar Y whose record names calendar X and key k
PlaceholdersFor(st, X, Y, k) ==
    { p \in st : /\ p.calendar_id = Y
                 /\ IsTracked(p)
                 /\ InfoOf(p).source_calendar_id = X
                 /\ get_occurrence_key(InfoOf(p)) = k }
\* a live invocation has returned its summary and no backend call failed
SucceededLive == pc = "done" /\ ~ dry_run /\ clean
\* the results of the summary for direction (X, Y)
ResultsOf(sm, X, Y) ==
    { i \in 1..Len(sm) : sm[i].source_id = X /\ sm[i].target_id = Y }

\* C1 -- Convergence: after a live sync() in which every fetch and every
\* action succeeded, every qualifying event e (of the window) of a configured
\* calendar X has, in every other configured calendar Y, exactly one
\* placeholder whose record names X and e's occurrence key, and that record
\* stores content_hash(e).
C1_Convergence ==
    SucceededLive =>
        \A e \in store :
            (e.calendar_id \in Range(calendar_ids) /\ QualifiesAsSource(e) /\ InWindow(e)) =>
                \A Y \in Range(calendar_ids) \ {e.calendar_id} :
                    LET ps == PlaceholdersFor(store, e.calendar_id, Y,
                                              tracker_get_occurrence_key(e))
                    IN  /\ Cardinality(ps) = 1
                        /\ \A p \in ps : InfoOf(p).source_hash = compute_event_hash(e)

\* C3 -- Placeholder uniqueness: between sync() runs, whatever the windows,
\* the user's edits and the failures were, no calendar holds two placeholders
\* with the same source calendar and occurrence key.
C3_Uniqueness ==
    Between =>
        \A p \in store, q \in store :
            ( /\ IsTracked(p) /\ IsTracked(q)
              /\ p.calendar_id = q.calendar_id
              /\ InfoOf(p).source_calendar_id = InfoOf(q).source_calendar_id
              /\ get_occurrence_key(InfoOf(p)) = get_occurrence_key(InfoOf(q)) ) => p = q

\* C4 -- Cleanup: when an event e of X that had placeholders from a
\* successful sync is removed, the next successful live sync() (whose window
\* covers e's time) counts exactly one DELETE in direction (X, Y) for every
\* calendar Y that held a placeholder of e, and afterwards no calendar holds
\* a placeholder naming X and e's occurrence key.
C4_Cleanup ==
    ( /\ SucceededLive
      /\ removed.kind = "event"
      /\ InWindow(removed.event)
      /\ removed.event.calendar_id \in Range(calendar_ids) ) =>
        LET e == removed.event
        IN  /\ \A Y \in (removed.holders \cap Range(calendar_ids)) \ {e.calendar_id} :
                   \A i \in ResultsOf(summary, e.calendar_id, Y) : summary[i].deleted = 1
            /\ \A Y \in Cals :
                   PlaceholdersFor(store, e.calendar_id, Y,
                                   tracker_get_occurrence_key(e)) = {}

\* the invocation follows directly (no edit in between) a live invocation of
\* the same window in which no backend call failed
FollowsSucceededLive ==
    /\ prev.kind = "run"
    /\ ~ prev.dry_run
    /\ prev.clean
    /\ prev.start_date = start_date
    /\ prev.end_date = end_date
\* no result of the summary counts an action
NoCounts(sm) ==
    \A i \in 1..Len(sm) : sm[i].created = 0 /\ sm[i].updated = 0 /\ sm[i].deleted = 0

\* C2 -- Idempotence: a sync() that directly follows an error-free live
\* sync() over the same calendars and window, with no calendar changed in
\* between, emits no CREATE, UPDATE or DELETE in any direction: every result
\* counts created = updated = deleted = 0 and the calendars stay unchanged.
C2_Idempotence ==
    FollowsSucceededLive =>
        /\ pc \in {"apply", "diff", "done"} => emitted = <<>> /\ store = before
        /\ pc \in {"diff", "done"} => NoCounts(summary)

\* the error strings recorded in the first n results of a summary
RECURSIVE ErrorCount(_, _)
ErrorCount(sm, n) == IF n = 0 THEN 0 ELSE ErrorCount(sm, n - 1) + Len(sm[n].errors)
\* the suffix of a list from position k on
From(seq, k) == SubSeq(seq, k, Len(seq))

InRun == pc \in {"load", "diff", "apply", "done", "failed"}

\* C9 -- Dry run changes nothing: a sync() with dry_run = true makes no call
\* of create_event, update_event or delete_event, and the contents of every
\* calendar during and after the run are those before it.
C9_DryRunChangesNothing ==
    (InRun /\ dry_run) => calls = 0 /\ store = before

\* a dry run over calendars that hold a placeholder has returned a Summary
\* that counts an UPDATE
C9_Witness ==
    /\ pc = "done"
    /\ dry_run
    /\ \E p \in store : IsTracked(p)
    /\ \E i \in 1..Len(summary) : summary[i].updated > 0

\* the created, updated and deleted counts of a result
Counts(r) == << r.created, r.updated, r.deleted >>
\* the live invocation that has returned follows directly a dry run of the
\* same window, so both started from the same calendar contents
LiveAfterDryRun ==
    /\ SucceededLive
    /\ prev.kind = "run"
    /\ prev.dry_run
    /\ prev.start_date = start_date
    /\ prev.end_date = end_date

\* C10 -- Dry run predicts the live run: for any calendar contents and any
\* list of configured calendars, the created, updated and deleted counts of
\* every direction of a dry run equal those of a live run started from the
\* same contents in which no action fails.
C10_DryRunPredicts ==
    LiveAfterDryRun =>
        /\ Len(prev.summary) = Len(summary)
        /\ \A i \in 1..Len(summary) : Counts(prev.summary[i]) = Counts(summary[i])

\* the event carries no tracking record
NotTracked(e) == ~ IsTracked(e)
\* a snapshot without its placeholders
WithoutPlaceholders(events) == SelectSeq(events, NotTracked)

\* C7 -- No placeholder chaining: in every direction (B, C) of every run, a
\* placeholder of B is never the source event of a CREATE or UPDATE and
\* causes no DELETE in C: the actions of the direction are those the differ
\* computes with the placeholders absent from B's snapshot.
C7_NoChaining ==
    pc = "apply" =>
        /\ \A i \in 1..Len(emitted) :
               emitted[i].action_type \in {"create", "update"} =>
                   NotTracked(emitted[i].source_event[1])
        /\ emitted = compute_sync_actions(WithoutPlaceholders(events_by_calendar[source_id]),
                                          events_by_calendar[target_id], source_id)

\* direction (B, C) runs on a snapshot of B that holds a placeholder whose
\* record names A, next to an event of B's own that gets a CREATE
C7_Witness ==
    /\ pc = "apply"
    /\ source_id = "B"
    /\ target_id = "C"
    /\ \E i \in 1..Len(events_by_calendar["B"]) :
           /\ IsTracked(events_by_calendar["B"][i])
           /\ InfoOf(events_by_calendar["B"][i]).source_calendar_id = "A"
    /\ \E i \in 1..Len(emitted) : emitted[i].action_type = "create"

\* the event does not qualify as a sync source for its availability or status
Unavailable(e) ==
    \/ e.availability = AVAILABILITY_FREE
    \/ e.self_participant_status \in {PARTICIPANT_STATUS_PENDING, PARTICIPANT_STATUS_DECLINED}
\* the target snapshot holds a placeholder made for the source event of id k
SyncedBefore(k) ==
    \E i \in 1..Len(target_events) :
        /\ IsTracked(target_events[i])
        /\ InfoOf(target_events[i]).source_event_id = k

\* C6 -- Filtering: whatever the source and target snapshots,
\* compute_sync_actions emits no CREATE whose source event is free, or has
\* a pending or declined invitation, synced before or not.
C6_Filtering ==
    returned.kind = "actions" =>
        \A i \in 1..Len(returned.actions) :
            returned.actions[i].action_type = "create" =>
                ~ Unavailable(returned.actions[i].source_event[1])

\* the differ has returned for a source snapshot that holds a declined event
\* never synced before and an event synced before that is now free
C6_Witness ==
    /\ returned.kind = "actions"
    /\ \E k \in 1..Len(source_events) :
           /\ source_events[k].self_participant_status = PARTICIPANT_STATUS_DECLINED
           /\ ~ SyncedBefore(k)
    /\ \E k \in 1..Len(source_events) :
           /\ source_events[k].availability = AVAILABILITY_FREE
           /\ SyncedBefore(k)

\* the actions that concern the source event of id k: it is their source
\* event or their target is a placeholder made for it
Concerning(acts, k) ==
    { i \in 1..Len(acts) :
        \/ acts[i].source_event = << source_events[k] >>
        \/ /\ acts[i].target_event # <<>>
           /\ IsTracked(acts[i].target_event[1])
           /\ InfoOf(acts[i].target_event[1]).source_event_id = k }
\* the source event at index k was changed in the field its placeholder in
\* the target, which stores its previous hash, was made before
ChangedAfterSync(fields) ==
    /\ returned.kind = "actions"
    /\ change.kind \in fields
    /\ change.index <= Len(previous_events)
    /\ should_sync_event(previous_events[change.index])

\* C8 -- Hash selectivity: for a source event whose placeholder stores its
\* previous content hash, a change of only the title or the annotation makes
\* the differ emit no action for it; a change of its start, its end or only
\* its all-day flag makes the differ emit exactly one UPDATE for it.
C8_HashSelectivity ==
    /\ ChangedAfterSync({"title", "notes"}) =>
           Concerning(returned.actions, change.index) = {}
    /\ ChangedAfterSync({"start_date", "end_date", "is_all_day"}) =>
           /\ Cardinality(Concerning(returned.actions, change.index)) = 1
           /\ \A i \in Concerning(returned.actions, change.index) :
                  returned.actions[i].action_type = "update"

\* C11 -- Fetch failure is fatal: when a get_events call of sync() fails,
\* the invocation aborts with that step (which changes no calendar and makes
\* no create, update or delete call), and nothing happens afterwards but a
\* user's edit or a new invocation: no Summary is returned and no further
\* fetch, create, update or delete is made by the failed invocation.
C11_FetchFailureFatal ==
    [][ /\ (clean /\ ~ clean') =>
               pc' = "failed" /\ store' = store /\ calls' = calls
        /\ pc = "failed" =>
               \/ edits' = edits + 1 /\ pc' = "idle"
               \/ runs' = runs + 1 /\ pc' = "load" /\ summary' = <<>> ]_vars

\* the refresh after direction (A, B), which applied an action, has failed
\* with direction (B, A) still to come
C11_Witness ==
    /\ pc = "failed"
    /\ ~ clean
    /\ calls > 0
    /\ pair_idx = 1

\* the same real event with another title, location and annotation (neither
\* annotation contains the tracking prefix); other events are left alone
Retold(e) ==
    IF is_placeholder(e) THEN e
    ELSE [e EXCEPT !.title = "Other", !.location = "Elsewhere",
                   !.notes = IF e.notes = <<>> THEN << TextTok >> ELSE <<>>]
RetoldAll(events) == [k \in 1..Len(events) |-> Retold(events[k])]
\* the target calendar after the engine has applied the actions to it
TargetAfter(acts) == AppliedAll(Range(target_events), acts, source_calendar_id, "B")
\* the annotation is a tracking marker and nothing else
OnlyMarker(notes) ==
    /\ Len(notes) = 3
    /\ notes[1] = PrefixTok
    /\ notes[2].t = "json"
    /\ DOMAIN notes[2].data \subseteq {"tid", "src", "scal", "hash", "sstart"}
    /\ notes[3] = SuffixTok

Current(cal) == events_by_calendar[cal] = get_events(store, cal, start_date, end_date)

\* C13 -- Target refresh: in a live sync(), the step that ends a direction
\* (S, T) which counted at least one action re-fetches the snapshot of T,
\* and every direction starts on snapshots of its source and of its target
\* that are current: it sees the placeholders made earlier in the invocation.
C13_TargetRefresh ==
    /\ [][ ( /\ ~ dry_run
             /\ pc = "apply"
             /\ pc' \in {"diff", "done"}
             /\ total_actions(result) > 0 ) =>
               events_by_calendar'[target_id] =
                   get_events(store, target_id, start_date, end_date) ]_vars
    /\ [] ( (~ dry_run /\ pc = "diff") => Current(source_id) /\ Current(target_id) )

\* a direction of a live sync() whose source snapshot holds a placeholder
\* created earlier in the same invocation
C13_Witness ==
    /\ ~ dry_run
    /\ pc = "apply"
    /\ \E i \in 1..Len(events_by_calendar[source_id]) :
           /\ IsTracked(events_by_calendar[source_id][i])
           /\ events_by_calendar[source_id][i] \notin before

\* the step applies the UPDATE at the head of the direction's actions
AppliesUpdate ==
    /\ pc = "apply"
    /\ ~ dry_run
    /\ actions # <<>>
    /\ Head(actions).action_type = "update"
    /\ calls' = calls + 1
    /\ raised' = raised
\* the event of that id in a backend
EventOfId(st, id) == CHOOSE e \in st : e.id = id

\* C14 -- UPDATE is in place: an UPDATE the engine applies changes the
\* placeholder alone; it keeps its event id, calendar, title and tracking_id
\* and sets its start, end and annotation from the source event, the stored
\* hash being the source's current content hash. No step ever changes the
\* tracking_id of an event.
C14_UpdateInPlace ==
    [][ /\ AppliesUpdate =>
               LET src == Head(actions).source_event[1]
                   id == Head(actions).target_event[1].id
                   old == EventOfId(store, id)
                   new == EventOfId(store', id)
               IN  /\ old \in store /\ new \in store'
                   /\ store' \ {new} = store \ {old}
                   /\ new.calendar_id = old.calendar_id
                   /\ new.title = old.title
                   /\ IsTracked(new)
                   /\ InfoOf(new).tracking_id = InfoOf(old).tracking_id
                   /\ new.start_date = src.start_date
                   /\ new.end_date = src.end_date
                   /\ InfoOf(new).source_hash = compute_event_hash(src)
                   /\ OnlyMarker(new.notes)
        /\ \A p \in store, q \in store' :
               (p.id = q.id /\ IsTracked(p) /\ IsTracked(q)) =>
                   InfoOf(q).tracking_id = InfoOf(p).tracking_id ]_vars

\* a live sync() has applied an UPDATE that moved a placeholder
C14_Witness ==
    /\ pc = "apply"
    /\ ~ dry_run
    /\ result.updated > 0
    /\ \E p \in store : IsTracked(p) /\ p \notin before

\* the configured calendar ids are pairwise distinct
DistinctIds(ids) == \A i, j \in 1..Len(ids) : ids[i] = ids[j] => i = j

\* C15 -- Summary coverage: for N distinct configured calendar ids a
\* completed sync() returns exactly N*(N-1) results, exactly one for each
\* ordered pair of different calendars, each carrying its source id and its
\* target id, whether or not the direction produced an action.
C15_SummaryCoverage ==
    (pc = "done" /\ DistinctIds(calendar_ids)) =>
        /\ Len(summary) = Len(calendar_ids) * (Len(calendar_ids) - 1)
        /\ \A i \in 1..Len(summary) :
               /\ summary[i].source_id \in Range(calendar_ids)
               /\ summary[i].target_id \in Range(calendar_ids)
               /\ summary[i].source_id # summary[i].target_id
        /\ \A X \in Range(calendar_ids) : \A Y \in Range(calendar_ids) \ {X} :
               Cardinality(ResultsOf(summary, X, Y)) = 1

\* a sync() over three calendars has returned; one direction counted an
\* action and another produced none
C15_Witness ==
    /\ pc = "done"
    /\ Len(calendar_ids) = 3
    /\ \E i \in 1..Len(summary) : total_actions(summary[i]) > 0
    /\ \E i \in 1..Len(summary) :
           total_actions(summary[i]) = 0 /\ summary[i].errors = <<>>

\* the counts of r and those of r with the action counted
SameCounts(r, q) ==
    r.created = q.created /\ r.updated = q.updated /\ r.deleted = q.deleted

\* a round of the live action loop has counted the action: the backend call
\* was made and did what the action asks for
AppliedWithoutFailing(a) ==
    /\ store' = Applied(store, a, source_id, target_id)
    /\ a.action_type = "delete" => EventWithIdentifier(store', a.target_event[1].id) = {}

\* C16 -- Counts reflect only successful actions: in a live direction every
\* round of the action loop either counts the action in its own counter,
\* adds no error and has applied the action without failing, or adds exactly
\* one error string and no count; so created + updated + deleted + number
\* of errors + actions still to apply is the number of actions the differ
\* emitted for the direction.
C16_CountsOnlySuccesses ==
    /\ [][ (~ dry_run /\ pc = "apply" /\ actions # <<>> /\ actions' = Tail(actions)) =>
              \/ /\ result' = Counted(result, Head(actions))
                 /\ AppliedWithoutFailing(Head(actions))
              \/ /\ SameCounts(result', result)
                 /\ Len(result'.errors) = Len(result.errors) + 1
                 /\ store' = store ]_vars
    /\ [] ( pc = "apply" =>
               total_actions(result) + Len(result.errors) + Len(actions) = Len(emitted) )

\* the positions of the CREATE actions for occurrence key k
CreatesFor(acts, k) ==
    { i \in 1..Len(acts) : /\ acts[i].action_type = "create"
                           /\ tracker_get_occurrence_key(acts[i].source_event[1]) = k }

\* C17 -- No duplicate CREATE: for any source_events, target_events and
\* source_calendar_id the list compute_sync_actions returns holds at most one
\* CREATE action per occurrence key.
C17_NoDuplicateCreate ==
    returned.kind = "actions" =>
        \A i \in 1..Len(returned.actions) :
            returned.actions[i].action_type = "create" =>
                Cardinality(CreatesFor(returned.actions,
                    tracker_get_occurrence_key(returned.actions[i].source_event[1]))) = 1

\* the events the differ has been called on
DifferArguments == Range(source_events) \cup Range(target_events)

\* C18 -- Placeholder classification is fail-open: is_placeholder(event) is
\* true exactly when decoding the event's annotation yields a tracking
\* record; a source event whose annotation holds the tracking prefix but no
\* valid record is treated as a real event: if it is busy and neither pending
\* nor declined, the differ's actions hold a CREATE or an UPDATE for it unless
\* its placeholder is there and up to date.
C18_ClassificationFailOpen ==
    returned.kind = "actions" =>
        /\ \A e \in DifferArguments : is_placeholder(e) <=> IsTracked(e)
        /\ \A k \in 1..Len(source_events) :
               LET e == source_events[k]
               IN  (QualifiesAsSource(e) /\
                    \A p \in Range(target_events) :
                        IsTracked(p) =>
                            \/ get_occurrence_key(InfoOf(p)) # tracker_get_occurrence_key(e)
                            \/ InfoOf(p).source_hash # compute_event_hash(e)) =>
                   \E i \in 1..Len(returned.actions) :
                       /\ returned.actions[i].action_type \in {"create", "update"}
                       /\ returned.actions[i].source_event = << e >>

\* C19 -- Decoding is total: from_notes returns a tracking record or 'no
\* record' for every notes value and never raises, and so a malformed
\* annotation on an event never makes compute_sync_actions raise.
C19_DecodingTotal ==
    /\ decoded.kind \in {"idle", "info", "none"}
    /\ returned.kind \in {"none", "actions"}

\* C20 -- Codec round trip: for every tracking record r,
\* from_notes(to_notes_marker(r)) equals r field for field; an absent
\* occurrence start decodes to an absent one.
C20_RoundTrip ==
    (record.kind = "info" /\ decoded.kind # "idle") =>
        /\ decoded.kind = "info"
        /\ decoded.tracking_id = record.tracking_id
        /\ decoded.source_event_id = record.source_event_id
        /\ decoded.source_calendar_id = record.source_calendar_id
        /\ decoded.source_hash = record.source_hash
        /\ decoded.source_start = record.source_start

\* the live invocation that has returned without a failure follows directly
\* (no edit in between) a live invocation of the same window in which some
\* backend call failed
RecoveredRun ==
    /\ SucceededLive
    /\ prev.kind = "run"
    /\ ~ prev.dry_run
    /\ ~ prev.clean
    /\ prev.start_date = start_date
    /\ prev.end_date = end_date

\* direction (X, Y) is converged on the window: one placeholder with the
\* current hash per qualifying event of X, none without such an event
Converged(X, Y) ==
    /\ \A e \in store :
           (e.calendar_id = X /\ QualifiesAsSource(e) /\ InWindow(e)) =>
               LET ps == PlaceholdersFor(store, X, Y, tracker_get_occurrence_key(e))
               IN  /\ Cardinality(ps) = 1
                   /\ \A p \in ps : InfoOf(p).source_hash = compute_event_hash(e)
    /\ \A p \in store :
           (p.calendar_id = Y /\ IsTracked(p) /\ InWindow(p) /\
            InfoOf(p).source_calendar_id = X) =>
               \E e \in store :
                   /\ e.calendar_id = X /\ QualifiesAsSource(e) /\ InWindow(e)
                   /\ tracker_get_occurrence_key(e) = get_occurrence_key(InfoOf(p))

\* what the differ returns for direction (X, Y) in a sync() of the same
\* window started on the calendars as they are
NextActions(X, Y) ==
    compute_sync_actions(get_events(store, X, start_date, end_date),
                         get_events(store, Y, start_date, end_date), X)

\* C21 -- Recovery after partial failure: a live sync() in which no action
\* fails, run over the same window and unchanged events after a live sync()
\* in which some action failed, leaves every ordered pair of calendars
\* converged, and the sync() after it emits no action.
C21_Recovery ==
    RecoveredRun =>
        \A X \in Range(calendar_ids) : \A Y \in Range(calendar_ids) \ {X} :
            Converged(X, Y) /\ NextActions(X, Y) = <<>>

\* C22 -- Occurrence-key consistency: when the engine applies a CREATE or an
\* UPDATE for source event e, the tracking record it writes into e's
\* placeholder has the occurrence key the differ derives from e, so the
\* differ finds that placeholder under e's key in the next pass.
C22_KeyConsistency ==
    [][ ( /\ ~ dry_run /\ pc = "apply" /\ actions # <<>>
          /\ Head(actions).action_type \in {"create", "update"}
          /\ store' # store ) =>
            LET e == Head(actions).source_event[1]
            IN  \A p \in store' \ store :
                    /\ IsTracked(p)
                    /\ get_occurrence_key(InfoOf(p)) = tracker_get_occurrence_key(e)
                    /\ DictHas(IndexPlaceholders(<< p >>, source_id, 1),
                               tracker_get_occurrence_key(e)) ]_vars

\* the event is a placeholder of calendar T that originates from calendar S,
\* and no event of S
OwnPlaceholder(e, S, T) ==
    /\ e.calendar_id = T
    /\ e.calendar_id # S
    /\ IsTracked(e)
    /\ InfoOf(e).source_calendar_id = S

\* C23 -- Only own placeholders are touched: in direction (S, T) of a live
\* sync() update_event and delete_event are called only on placeholders of T
\* whose record names S, and every event a round of the action loop modifies
\* or deletes is such a placeholder: no other event of any calendar, and no
\* event of S, is changed.
C23_OnlyOwnPlaceholders ==
    [][ (~ dry_run /\ pc = "apply" /\ actions # <<>> /\ actions' = Tail(actions)) =>
           /\ Head(actions).action_type \in {"update", "delete"} =>
                  OwnPlaceholder(Head(actions).target_event[1], source_id, target_id)
           /\ \A e \in store \ store' : OwnPlaceholder(e, source_id, target_id) ]_vars

\* the events the placeholder's tracking record refers to: those of the
\* record's calendar with the record's event id (one event, unless the id is
\* that of a recurring series)
SourcesOf(p) ==
    { e \in store : /\ e.calendar_id = InfoOf(p).source_calendar_id
                    /\ e.id = InfoOf(p).source_event_id
                    /\ ~ IsTracked(e) }

\* C24 -- Placeholders mirror their source's time: after a live sync() in
\* which every action succeeded, every placeholder created or updated in that
\* run has the start, the end and the all-day flag of the source event its
\* record refers to (stated for the events of non-recurring ids, which the
\* record identifies).
C24_MirrorsTime ==
    SucceededLive =>
        \A p \in store \ before :
            (IsTracked(p) /\ ~ IsRecurring(InfoOf(p).source_event_id)) =>
                \A e \in SourcesOf(p) :
                    /\ p.start_date = e.start_date
                    /\ p.end_date = e.end_date
                    /\ p.is_all_day = e.is_all_day

\* C25 -- Un-qualifying removes the placeholder: when a live sync() in which
\* every call succeeded starts with an event e of calendar X that does not
\* qualify (free, or invitation pending or declined) and has a placeholder
\* in another configured calendar Y, the run counts a DELETE in direction
\* (X, Y) and leaves no placeholder of e in Y.
C25_UnqualifyingRemoves ==
    SucceededLive =>
        \A e \in store \cap before :
            ( /\ ~ IsTracked(e) /\ Unavailable(e) /\ InWindow(e)
              /\ e.calendar_id \in Range(calendar_ids) ) =>
                \A Y \in Range(calendar_ids) \ {e.calendar_id} :
                    (\E p \in PlaceholdersFor(before, e.calendar_id, Y,
                                              tracker_get_occurrence_key(e)) : InWindow(p)) =>
                        /\ \A i \in ResultsOf(summary, e.calendar_id, Y) :
                               summary[i].deleted >= 1
                        /\ PlaceholdersFor(store, e.calendar_id, Y,
                                           tracker_get_occurrence_key(e)) = {}

\* C26 -- No self-direction: whatever calendar_ids list the engine was given,
\* sync() never runs the differ or applies actions for a direction whose
\* source calendar id equals its target calendar id.
C26_NoSelfDirection ==
    pc = "apply" => source_id # target_id

\* the position of an event in a snapshot
Pos(events, e) == CHOOSE k \in 1..Len(events) : events[k] = e

\* C27 -- Action ordering: in the list compute_sync_actions returned for the
\* direction every CREATE and UPDATE precedes every DELETE and the CREATE and
\* UPDATE actions follow the order of their source events in source_events;
\* the engine handles the actions in that list order, one per round, the
\* actions still to apply being a suffix of the list.
C27_ActionOrdering ==
    /\ [] ( pc = "apply" =>
              /\ \A i \in 1..Len(emitted) : \A j \in (i + 1)..Len(emitted) :
                     /\ emitted[i].action_type = "delete" =>
                            emitted[j].action_type = "delete"
                     /\ emitted[j].action_type # "delete" =>
                            Pos(events_by_calendar[source_id], emitted[i].source_event[1]) <
                            Pos(events_by_calendar[source_id], emitted[j].source_event[1])
              /\ Len(actions) <= Len(emitted)
              /\ actions = From(emitted, Len(emitted) - Len(actions) + 1) )
    /\ [][ (pc = "apply" /\ actions' # actions) =>
              /\ actions' = Tail(actions)
              /\ emitted' = emitted
              /\ \/ store' = store
                 \/ store' = Applied(store, Head(actions), source_id, target_id) ]_vars

\* a live direction whose list holds two CREATE or UPDATE actions followed by
\* a DELETE, the first of them applied
C27_Witness ==
    /\ pc = "apply" /\ ~ dry_run
    /\ Len(emitted) >= 3
    /\ emitted[1].action_type # "delete"
    /\ emitted[2].action_type # "delete"
    /\ emitted[Len(emitted)].action_type = "delete"
    /\ Len(actions) < Len(emitted)
    /\ store # before

====
